---- MODULE Spec2Model ----
(***************************************************************************)
(* Model of telegram_anonymizer_bot.py: the structured-pattern redactor    *)
(* (anonymize_with_regex), the entity redactor (anonymize_with_ner), their *)
(* composition (full_anonymize), the document walkers (process_docx,       *)
(* process_pdf, process_pdf_simple) and the request handler                *)
(* (handle_document).                                                      *)
(*                                                                         *)
(* A text is a sequence of Unicode code points, so that the character      *)
(* classes of the regular expressions (\d, \s, \w, \b, [a-zA-Z]) and the   *)
(* Cyrillic placeholders are what they are in the source.  Positions in a  *)
(* text are 0-based as in Python; t[p+1] is the character at position p.   *)
(***************************************************************************)
EXTENDS Integers, Sequences, FiniteSets, TLC

VARIABLES
    \* anonymize_with_regex applied to a text and to its own output
    rpc, rtext, rnum, rout, rout2,
    \* one text unit going through full_anonymize
    npc, caller, ntext, nregex, recognizerInvoked, nspans, entities, text_list,
    nraised, nresult,
    \* one request going through handle_document
    hpc, fileExt, fileSize, files, inputBound, outputBound, getFileCalled,
    pdfArgs, convFailed, simpleRan, simpleArgs, simpleFailed, pdfOutcome, outcome

rvars == <<rpc, rtext, rnum, rout, rout2>>
nvars == <<npc, caller, ntext, nregex, recognizerInvoked, nspans, entities,
           text_list, nraised, nresult>>
hvars == <<hpc, fileExt, fileSize, files, inputBound, outputBound, getFileCalled,
           pdfArgs, convFailed, simpleRan, simpleArgs, simpleFailed, pdfOutcome,
           outcome>>
vars == <<rvars, nvars, hvars>>

-----------------------------------------------------------------------------
(* Character classes of Python's re module on str patterns, over the       *)
(* characters that occur in the texts and placeholders below (ASCII and    *)
(* the Russian alphabet).                                                  *)

\* \d
Digit == 48..57
\* [a-zA-Z]
Alpha == (65..90) \cup (97..122)
\* the Russian alphabet (U+0410..U+044F, U+0401, U+0451)
Cyrillic == (1040..1103) \cup {1025, 1105}
\* \w : letters, digits and the underscore
Word == Digit \cup Alpha \cup Cyrillic \cup {95}
\* \s
Space == (9..13) \cup (28..32) \cup {133, 160}
\* [\s\-]
SpaceOrHyphen == Space \cup {45}
\* [a-zA-Z0-9._%+-]
EmailLocal == Alpha \cup Digit \cup {46, 95, 37, 43, 45}
\* [a-zA-Z0-9.-]
EmailDomain == Alpha \cup Digit \cup {46, 45}

-----------------------------------------------------------------------------
(* Placeholders (the replacement literals of the source).                  *)

\* '[ИНН]'
PH_INN == <<91, 1048, 1053, 1053, 93>>
\* '[ОГРН]'
PH_OGRN == <<91, 1054, 1043, 1056, 1053, 93>>
\* '[ОГРНИП]'
PH_OGRNIP == <<91, 1054, 1043, 1056, 1053, 1048, 1055, 93>>
\* '[КПП]'
PH_KPP == <<91, 1050, 1055, 1055, 93>>
\* '[БИК]'
PH_BIK == <<91, 1041, 1048, 1050, 93>>
\* '[Р/С]'
PH_RS == <<91, 1056, 47, 1057, 93>>
\* '[К/С]'
PH_KS == <<91, 1050, 47, 1057, 93>>
\* '[ТЕЛЕФОН]'
PH_PHONE == <<91, 1058, 1045, 1051, 1045, 1060, 1054, 1053, 93>>
\* '[EMAIL]'
PH_EMAIL == <<91, 69, 77, 65, 73, 76, 93>>
\* '[ПАСПОРТ]'
PH_PASSPORT == <<91, 1055, 1040, 1057, 1055, 1054, 1056, 1058, 93>>
\* '[СНИЛС]'
PH_SNILS == <<91, 1057, 1053, 1048, 1051, 1057, 93>>
\* '[ФИО]'
PH_PER == <<91, 1060, 1048, 1054, 93>>
\* '[ОРГАНИЗАЦИЯ]'
PH_ORG == <<91, 1054, 1056, 1043, 1040, 1053, 1048, 1047, 1040, 1062, 1048, 1071, 93>>
\* '[АДРЕС]'
PH_LOC == <<91, 1040, 1044, 1056, 1045, 1057, 93>>

-----------------------------------------------------------------------------
(* A backtracking matcher for the regular expressions of the source.  A    *)
(* pattern is a sequence of alternatives tried in order; an alternative is *)
(* a sequence of items: a greedy repetition of a character class, a word   *)
(* boundary \b, or a negative lookahead (?!class).                         *)

\* class{lo,hi}, greedy; hi = -1 is "no upper limit"
Rep(set, lo, hi) == [kind |-> "rep", set |-> set, lo |-> lo, hi |-> hi]
\* class{n}
Exactly(set, n) == Rep(set, n, n)
\* class?
Opt(set) == Rep(set, 0, 1)
\* a literal character
Lit(c) == Rep({c}, 1, 1)
\* \b
WB == [kind |-> "wb", set |-> {}, lo |-> 0, hi |-> 0]
\* (?!class)
NotAhead(set) == [kind |-> "nla", set |-> set, lo |-> 0, hi |-> 0]

\* \b holds at position p: exactly one of the characters around p is a \w
AtWordBoundary(t, p) ==
    LET before == p >= 1 /\ t[p] \in Word
        after == p < Len(t) /\ t[p + 1] \in Word
    IN before # after

\* the number of consecutive characters of class set from position p, at most hi
RECURSIVE RunLength(_, _, _, _)
RunLength(t, p, set, hi) ==
    IF hi = 0 \/ p >= Len(t) \/ t[p + 1] \notin set
    THEN 0
    ELSE 1 + RunLength(t, p + 1, set, IF hi < 0 THEN hi ELSE hi - 1)

\* the end of the first match (in backtracking order) of items k.. of alt
\* at position p, or -1
RECURSIVE MatchFrom(_, _, _, _), TryCount(_, _, _, _, _)
MatchFrom(alt, k, t, p) ==
    IF k > Len(alt) THEN p
    ELSE IF alt[k].kind = "wb"
         THEN IF AtWordBoundary(t, p) THEN MatchFrom(alt, k + 1, t, p) ELSE -1
    ELSE IF alt[k].kind = "nla"
         THEN IF p < Len(t) /\ t[p + 1] \in alt[k].set
              THEN -1 ELSE MatchFrom(alt, k + 1, t, p)
    ELSE TryCount(alt, k, t, p, RunLength(t, p, alt[k].set, alt[k].hi))

TryCount(alt, k, t, p, n) ==
    IF n < alt[k].lo THEN -1
    ELSE LET e == MatchFrom(alt, k + 1, t, p + n)
         IN IF e >= 0 THEN e ELSE TryCount(alt, k, t, p, n - 1)

\* the end of the match of pattern pat at position p, or -1
RECURSIVE MatchAlts(_, _, _, _)
MatchAlts(pat, a, t, p) ==
    IF a > Len(pat) THEN -1
    ELSE LET e == MatchFrom(pat[a], 1, t, p)
         IN IF e >= 0 THEN e ELSE MatchAlts(pat, a + 1, t, p)

\* re.sub(pat, repl, t): the leftmost non-overlapping matches, scanned from
\* position p of the original string (no pattern here matches the empty string)
RECURSIVE SubFrom(_, _, _, _)
SubFrom(pat, repl, t, p) ==
    IF p >= Len(t) THEN <<>>
    ELSE LET e == MatchAlts(pat, 1, t, p)
         IN IF e > p
            THEN repl \o SubFrom(pat, repl, t, e)
            ELSE <<t[p + 1]>> \o SubFrom(pat, repl, t, p + 1)

re_sub(pat, repl, t) == SubFrom(pat, repl, t, 0)

-----------------------------------------------------------------------------
(* The eleven rules of anonymize_with_regex.                               *)

\* r'\b\d{10}(?!\d)|\b\d{12}(?!\d)'
RuleINN == << <<WB, Exactly(Digit, 10), NotAhead(Digit)>>,
              <<WB, Exactly(Digit, 12), NotAhead(Digit)>> >>
\* r'\b\d{13}(?!\d)'
RuleOGRN == << <<WB, Exactly(Digit, 13), NotAhead(Digit)>> >>
\* r'\b\d{15}(?!\d)'
RuleOGRNIP == << <<WB, Exactly(Digit, 15), NotAhead(Digit)>> >>
\* r'\b\d{9}(?!\d)'
RuleKPP == << <<WB, Exactly(Digit, 9), NotAhead(Digit)>> >>
\* r'\b04\d{7}(?!\d)'
RuleBIK == << <<WB, Lit(48), Lit(52), Exactly(Digit, 7), NotAhead(Digit)>> >>
\* r'\b\d{20}(?!\d)'
RuleRS == << <<WB, Exactly(Digit, 20), NotAhead(Digit)>> >>
\* r'\b301\d{17}(?!\d)'
RuleKS == << <<WB, Lit(51), Lit(48), Lit(49), Exactly(Digit, 17), NotAhead(Digit)>> >>
\* r'[\s\-]?\(?\d{3}\)?[\s\-]?\d{3}[\s\-]?\d{2}[\s\-]?\d{2}'
PhoneTail == <<Opt(SpaceOrHyphen), Opt({40}), Exactly(Digit, 3), Opt({41}),
               Opt(SpaceOrHyphen), Exactly(Digit, 3), Opt(SpaceOrHyphen),
               Exactly(Digit, 2), Opt(SpaceOrHyphen), Exactly(Digit, 2)>>
\* r'(\+7|8|7)?' followed by the tail: the optional group is greedy, so its
\* alternatives are tried in order before the empty one
RulePhone == << <<Lit(43), Lit(55)>> \o PhoneTail,
                <<Lit(56)>> \o PhoneTail,
                <<Lit(55)>> \o PhoneTail,
                PhoneTail >>
\* r'[a-zA-Z0-9._%+-]+@[a-zA-Z0-9.-]+\.[a-zA-Z]{2,}'
RuleEmail == << <<Rep(EmailLocal, 1, -1), Lit(64), Rep(EmailDomain, 1, -1),
                  Lit(46), Rep(Alpha, 2, -1)>> >>
\* r'\b\d{2}\s*\d{2}\s*\d{6}\b'
RulePassport == << <<WB, Exactly(Digit, 2), Rep(Space, 0, -1), Exactly(Digit, 2),
                     Rep(Space, 0, -1), Exactly(Digit, 6), WB>> >>
\* r'\b\d{3}[\-\s]?\d{3}[\-\s]?\d{3}[\s]?\d{2}\b'
RuleSNILS == << <<WB, Exactly(Digit, 3), Opt(SpaceOrHyphen), Exactly(Digit, 3),
                  Opt(SpaceOrHyphen), Exactly(Digit, 3), Opt(Space),
                  Exactly(Digit, 2), WB>> >>

\* the numeric rules with the prefix-specific rules moved before the generic
\* rules of the same length
NumericStage_SpecificFirst(text) ==
    LET t1 == re_sub(RuleINN, PH_INN, text)
        t2 == re_sub(RuleOGRN, PH_OGRN, t1)
        t3 == re_sub(RuleOGRNIP, PH_OGRNIP, t2)
        t4 == re_sub(RuleBIK, PH_BIK, t3)
        t5 == re_sub(RuleKPP, PH_KPP, t4)
        t6 == re_sub(RuleKS, PH_KS, t5)
    IN re_sub(RuleRS, PH_RS, t6)

\* the fixed-length numeric rules, in the order of the source
NumericStage(text) ==
    LET t1 == re_sub(RuleINN, PH_INN, text)
        t2 == re_sub(RuleOGRN, PH_OGRN, t1)
        t3 == re_sub(RuleOGRNIP, PH_OGRNIP, t2)
        t4 == re_sub(RuleKPP, PH_KPP, t3)
        t5 == re_sub(RuleBIK, PH_BIK, t4)
        t6 == re_sub(RuleRS, PH_RS, t5)
    IN re_sub(RuleKS, PH_KS, t6)

\* the phone, email, passport and insurance-number rules
ContactStage(text) ==
    LET t8 == re_sub(RulePhone, PH_PHONE, text)
        t9 == re_sub(RuleEmail, PH_EMAIL, t8)
        t10 == re_sub(RulePassport, PH_PASSPORT, t9)
    IN re_sub(RuleSNILS, PH_SNILS, t10)

anonymize_with_regex(text) == ContactStage(NumericStage(text))

-----------------------------------------------------------------------------
(* The texts the structured-pattern redactor is applied to: one digit run  *)
(* between a prefix and a suffix.                                          *)

\* the longest digit run of an input text
MaxRun == 21

\* a run of n digits that starts with head and goes on with the digit '1'
RECURSIVE Ones(_)
Ones(n) == IF n <= 0 THEN <<>> ELSE <<49>> \o Ones(n - 1)
DigitRun(head, n) == IF n < Len(head) THEN Ones(n) ELSE head \o Ones(n - Len(head))

\* the heads of a run: none, '04', '301', '7', '8'
RunHeads == {<<>>, <<48, 52>>, <<51, 48, 49>>, <<55>>, <<56>>}
\* what stands before the run: nothing, 'x', '_', ' ', '+', 'a@b.cc'
Prefixes == {<<>>, <<120>>, <<95>>, <<32>>, <<43>>, <<97, 64, 98, 46, 99, 99>>}
\* what stands after the run: nothing, 'x', ' '
Suffixes == {<<>>, <<120>>, <<32>>}

RegexInputs ==
    {pre \o DigitRun(head, n) \o post :
        pre \in Prefixes, head \in RunHeads, n \in 0..MaxRun, post \in Suffixes}

-----------------------------------------------------------------------------
(* The structured-pattern redactor applied to a text, and then to its own  *)
(* output.                                                                 *)

\* the entity redactor is not running
NerIdle ==
    /\ npc = "idle"
    /\ caller = "none"
    /\ ntext = <<>>
    /\ nregex = <<>>
    /\ recognizerInvoked = FALSE
    /\ nspans = <<>>
    /\ entities = <<>>
    /\ text_list = <<>>
    /\ nraised = FALSE
    /\ nresult = <<>>

\* the structured-pattern redactor is not running
RegexIdle ==
    /\ rpc = "idle"
    /\ rtext = <<>>
    /\ rnum = <<>>
    /\ rout = <<>>
    /\ rout2 = <<>>

\* no request is being handled
BotIdle ==
    /\ hpc = "idle"
    /\ fileExt = "none"
    /\ fileSize = 0
    /\ files = {}
    /\ inputBound = FALSE
    /\ outputBound = FALSE
    /\ getFileCalled = FALSE
    /\ pdfArgs = <<>>
    /\ convFailed = FALSE
    /\ simpleRan = FALSE
    /\ simpleArgs = <<>>
    /\ simpleFailed = FALSE
    /\ pdfOutcome = "none"
    /\ outcome = "none"

InitRegex ==
    /\ rpc = "input"
    /\ rtext \in RegexInputs
    /\ rnum = <<>>
    /\ rout = <<>>
    /\ rout2 = <<>>
    /\ NerIdle
    /\ BotIdle

\* anonymize_with_regex(text); rnum is the text after the numeric rules
ApplyRegex ==
    /\ rpc = "input"
    /\ rnum' = NumericStage(rtext)
    /\ rout' = anonymize_with_regex(rtext)
    /\ rpc' = "once"
    /\ UNCHANGED <<rtext, rout2, nvars, hvars>>

\* anonymize_with_regex applied to its own output
ApplyRegexAgain ==
    /\ rpc = "once"
    /\ rout2' = anonymize_with_regex(rout)
    /\ rpc' = "twice"
    /\ UNCHANGED <<rtext, rnum, rout, nvars, hvars>>

NextRegex == ApplyRegex \/ ApplyRegexAgain

SpecRegex == InitRegex /\ [][NextRegex]_vars

-----------------------------------------------------------------------------
(* Properties of the structured-pattern redactor.                          *)

OnlyDigits(t) == \A i \in 1..Len(t) : t[i] \in Digit

\* the lengths of the fixed-length numeric rules
CatalogueLengths == {9, 10, 12, 13, 15, 20}

\* the placeholder of the first rule of the catalogue that matches n digits
PlaceholderOfLength(n) ==
    CASE n \in {10, 12} -> PH_INN
      [] n = 13 -> PH_OGRN
      [] n = 15 -> PH_OGRNIP
      [] n = 9 -> PH_KPP
      [] n = 20 -> PH_RS

\* the text in which every maximal digit run of a catalogue length is
\* replaced by the placeholder of its length, and nothing else is changed
RECURSIVE ReplaceDelimitedRuns(_, _)
ReplaceDelimitedRuns(t, p) ==
    IF p >= Len(t) THEN <<>>
    ELSE LET n == RunLength(t, p, Digit, -1)
         IN IF n = 0 THEN <<t[p + 1]>> \o ReplaceDelimitedRuns(t, p + 1)
            ELSE (IF n \in CatalogueLengths
                  THEN PlaceholderOfLength(n)
                  ELSE SubSeq(t, p + 1, p + n))
                 \o ReplaceDelimitedRuns(t, p + n)

\* C7: anonymize_with_regex is idempotent: applied to its own output it
\* changes nothing.
C7_Idempotent == rpc = "twice" => rout2 = rout

\* C8: a text that is only a digit run of a catalogue length (9, 10, 12, 13,
\* 15 or 20) becomes exactly the placeholder of the first rule matching that
\* length: TAX_ID for 10 and 12, REG_NUMBER for 13, REG_NUMBER_SOLE_PROPRIETOR
\* for 15, TAX_REG_CODE for 9 (also after 04), ACCOUNT for 20 (also after 301).
C8_FirstRuleWins ==
    (rpc \in {"once", "twice"} /\ OnlyDigits(rtext) /\ Len(rtext) \in CatalogueLengths)
        => rout = PlaceholderOfLength(Len(rtext))

\* a 20-digit run beginning with 301 was redacted to the ACCOUNT placeholder,
\* and a 9-digit run beginning with 04 would be the TAX_REG_CODE one
C8_Witness ==
    /\ rpc = "once"
    /\ rtext = DigitRun(<<51, 48, 49>>, 20)
    /\ rout = PH_RS

\* C9: after the fixed-length numeric rules, every digit run of a catalogue
\* length that is delimited by non-digits or the string boundary (a letter or
\* an underscore before it included) is replaced by the placeholder of its
\* length, and no part of any other digit run is replaced.
C9_DelimitedRunsReplaced ==
    rpc \in {"once", "twice"} => rnum = ReplaceDelimitedRuns(rtext, 0)

-----------------------------------------------------------------------------
(* The entity redactor: anonymize_with_ner, and full_anonymize around it.  *)

\* the longest text of letters or blanks given to full_anonymize, and the
\* right end of the part of a text in which the recognizer reports spans
MaxLen == 2
\* the most spans the recognizer returns for one text
MaxSpans == 2

\* str.strip() is empty: the text is empty or only whitespace
IsBlank(t) == \A i \in 1..Len(t) : t[i] \in Space

\* the first n letters of 'abcdefgh', so that every position holds its own letter
Letters(n) == [i \in 1..n |-> 96 + i]
\* n blanks
Blanks(n) == [i \in 1..n |-> 32]
\* the text units: letters, blanks, and a nine-digit number
NerTexts ==
    {Letters(n) : n \in 0..MaxLen} \cup {Blanks(n) : n \in 1..MaxLen}
        \cup {DigitRun(<<48, 52>>, 9)}

Min(a, b) == IF a <= b THEN a ELSE b
Max(a, b) == IF a >= b THEN a ELSE b

\* span.type as natasha tags it, and a type the source leaves alone
SpanTypes == {"PER", "ORG", "LOC", "MISC"}

\* the spans a recognizer can report for text t: token spans, so non-empty
\* and within the text
SpansOf(t) ==
    {sp \in [start : 0..Len(t), stop : 0..Min(Len(t), MaxLen), type : SpanTypes] :
        sp.start < sp.stop}

\* doc.spans: what the recognizer lists for text t, in any order
SpanLists(t) == UNION {[1..k -> SpansOf(t)] : k \in 0..MaxSpans}

\* list.insert keeping the order by start descending, equal starts in the
\* order in which they were listed (sorted is stable, also with reverse=True)
RECURSIVE InsertByStartDescending(_, _)
InsertByStartDescending(sorted, sp) ==
    IF sorted = <<>> THEN <<sp>>
    ELSE IF Head(sorted).start >= sp.start
         THEN <<Head(sorted)>> \o InsertByStartDescending(Tail(sorted), sp)
         ELSE <<sp>> \o sorted

\* the mis-sorted list: by start ascending
RECURSIVE InsertByStartAscending(_, _)
InsertByStartAscending(sorted, sp) ==
    IF sorted = <<>> THEN <<sp>>
    ELSE IF Head(sorted).start <= sp.start
         THEN <<Head(sorted)>> \o InsertByStartAscending(Tail(sorted), sp)
         ELSE <<sp>> \o sorted

RECURSIVE SortedAscending(_)
SortedAscending(spans) ==
    IF spans = <<>> THEN <<>>
    ELSE InsertByStartAscending(SortedAscending(SubSeq(spans, 1, Len(spans) - 1)),
                                spans[Len(spans)])

\* sorted(doc.spans, key=lambda x: x.start, reverse=True)
RECURSIVE SortedEntities(_)
SortedEntities(spans) ==
    IF spans = <<>> THEN <<>>
    ELSE InsertByStartDescending(SortedEntities(SubSeq(spans, 1, Len(spans) - 1)),
                                 spans[Len(spans)])

\* the types that are replaced
ReplacedTypes == {"PER", "ORG", "LOC"}

\* a replacement table that forgets the locations
Replacement_NoLocation(type) ==
    CASE type = "PER" -> PH_PER
      [] type = "ORG" -> PH_ORG
      [] OTHER -> <<>>

\* the replacement of a span of a replaced type
Replacement(type) ==
    CASE type = "PER" -> PH_PER
      [] type = "ORG" -> PH_ORG
      [] type = "LOC" -> PH_LOC
      [] OTHER -> <<>>

\* buf[start:stop], with Python's clamping of the slice to the list
Slice(buf, start, stop) ==
    LET lo == Min(start, Len(buf))
        hi == Max(lo, Min(stop, Len(buf)))
    IN SubSeq(buf, lo + 1, hi)

\* buf[start:stop] = repl
SliceAssign(buf, start, stop, repl) ==
    LET lo == Min(start, Len(buf))
        hi == Max(lo, Min(stop, Len(buf)))
    IN SubSeq(buf, 1, lo) \o repl \o SubSeq(buf, hi + 1, Len(buf))

InitNer ==
    /\ npc = "start"
    /\ caller = "none"
    /\ ntext \in NerTexts
    /\ nregex = <<>>
    /\ recognizerInvoked = FALSE
    /\ nspans = <<>>
    /\ entities = <<>>
    /\ text_list = <<>>
    /\ nraised = FALSE
    /\ nresult = <<>>
    /\ RegexIdle
    /\ BotIdle

\* process_docx and process_pdf_simple on one paragraph, cell or page:
\* full_anonymize is called only if text.strip() is not empty
WalkTextUnit ==
    /\ npc = "start"
    /\ caller' = "walker"
    /\ \/ /\ ~IsBlank(ntext)
          /\ npc' = "full_anonymize"
          /\ UNCHANGED nresult
       \/ /\ IsBlank(ntext)
          /\ npc' = "done"
          /\ nresult' = ntext
    /\ UNCHANGED <<ntext, nregex, recognizerInvoked, nspans, entities, text_list,
                   nraised, rvars, hvars>>

\* full_anonymize called on a text as it is
CallFullAnonymize ==
    /\ npc = "start"
    /\ caller' = "direct"
    /\ npc' = "full_anonymize"
    /\ UNCHANGED <<ntext, nregex, recognizerInvoked, nspans, entities, text_list,
                   nraised, nresult, rvars, hvars>>

\* full_anonymize: text = anonymize_with_regex(text), then anonymize_with_ner
RegexStage ==
    /\ npc = "full_anonymize"
    /\ nregex' = anonymize_with_regex(ntext)
    /\ npc' = "segment"
    /\ UNCHANGED <<caller, ntext, recognizerInvoked, nspans, entities, text_list,
                   nraised, nresult, rvars, hvars>>

\* doc = Doc(text); doc.segment(segmenter): returns or raises
Segment ==
    /\ npc = "segment"
    /\ recognizerInvoked' = TRUE
    /\ \/ npc' = "tag_morph"
       \/ npc' = "except"
    /\ UNCHANGED <<caller, ntext, nregex, nspans, entities, text_list, nraised,
                   nresult, rvars, hvars>>

\* doc.tag_morph(morph_tagger): returns or raises
TagMorph ==
    /\ npc = "tag_morph"
    /\ \/ npc' = "tag_ner"
       \/ npc' = "except"
    /\ UNCHANGED <<caller, ntext, nregex, recognizerInvoked, nspans, entities,
                   text_list, nraised, nresult, rvars, hvars>>

\* doc.tag_ner(ner_tagger): fills doc.spans or raises
TagNer ==
    /\ npc = "tag_ner"
    /\ \/ /\ nspans' \in SpanLists(nregex)
          /\ npc' = "sort"
       \/ /\ npc' = "except"
          /\ UNCHANGED nspans
    /\ UNCHANGED <<caller, ntext, nregex, recognizerInvoked, entities, text_list,
                   nraised, nresult, rvars, hvars>>

\* entities = sorted(...); text_list = list(text)
SortSpans ==
    /\ npc = "sort"
    /\ entities' = SortedEntities(nspans)
    /\ text_list' = nregex
    /\ npc' = "loop"
    /\ UNCHANGED <<caller, ntext, nregex, recognizerInvoked, nspans, nraised,
                   nresult, rvars, hvars>>

\* one iteration of the loop over entities: the span is replaced, skipped
\* (another type), or reading it raises
Splice ==
    /\ npc = "loop"
    /\ entities # <<>>
    /\ \/ /\ Head(entities).type \in ReplacedTypes
          /\ text_list' = SliceAssign(text_list, Head(entities).start,
                                      Head(entities).stop,
                                      Replacement(Head(entities).type))
          /\ entities' = Tail(entities)
          /\ UNCHANGED npc
       \/ /\ Head(entities).type \notin ReplacedTypes
          /\ entities' = Tail(entities)
          /\ UNCHANGED <<npc, text_list>>
       \/ /\ npc' = "except"
          /\ UNCHANGED <<entities, text_list>>
    /\ UNCHANGED <<caller, ntext, nregex, recognizerInvoked, nspans, nraised,
                   nresult, rvars, hvars>>

\* return ''.join(text_list)
NerReturn ==
    /\ npc = "loop"
    /\ entities = <<>>
    /\ nresult' = text_list
    /\ npc' = "done"
    /\ UNCHANGED <<caller, ntext, nregex, recognizerInvoked, nspans, entities,
                   text_list, nraised, rvars, hvars>>

\* an except branch that returns the working buffer
NerExcept_ReturnsBuffer ==
    /\ npc = "except"
    /\ nraised' = TRUE
    /\ nresult' = text_list
    /\ npc' = "done"
    /\ UNCHANGED <<caller, ntext, nregex, recognizerInvoked, nspans, entities,
                   text_list, rvars, hvars>>

\* except Exception: logger.error(...); return text
NerExcept ==
    /\ npc = "except"
    /\ nraised' = TRUE
    /\ nresult' = nregex
    /\ npc' = "done"
    /\ UNCHANGED <<caller, ntext, nregex, recognizerInvoked, nspans, entities,
                   text_list, rvars, hvars>>

NextNer ==
    \/ WalkTextUnit
    \/ CallFullAnonymize
    \/ RegexStage
    \/ Segment
    \/ TagMorph
    \/ TagNer
    \/ SortSpans
    \/ Splice
    \/ NerReturn
    \/ NerExcept

SpecNer == InitNer /\ [][NextNer]_vars

-----------------------------------------------------------------------------
(* Properties of the entity redactor and of full_anonymize.                *)

\* no two spans of the list share a character
NonOverlapping(spans) ==
    \A i, j \in 1..Len(spans) :
        i < j => (spans[i].stop <= spans[j].start \/ spans[j].stop <= spans[i].start)

\* the placeholder of an entity category
PlaceholderOfType(type) ==
    CASE type = "PER" -> PH_PER
      [] type = "ORG" -> PH_ORG
      [] type = "LOC" -> PH_LOC

\* the text t read from position p on, in which the characters of every PER,
\* ORG and LOC span are replaced by the placeholder of its type and every
\* other character is kept; it does not depend on the order of the list
RECURSIVE ExpectedRedaction(_, _, _)
ExpectedRedaction(t, spans, p) ==
    IF p >= Len(t) THEN <<>>
    ELSE LET here == {i \in 1..Len(spans) :
                         spans[i].start = p /\ spans[i].type \in {"PER", "ORG", "LOC"}}
         IN IF here = {}
            THEN <<t[p + 1]>> \o ExpectedRedaction(t, spans, p + 1)
            ELSE LET sp == spans[CHOOSE i \in here : TRUE]
                 IN PlaceholderOfType(sp.type) \o ExpectedRedaction(t, spans, sp.stop)

\* C2: if the recognizer raises at any step (segmentation, morphological
\* tagging, NER tagging, or while the spans are applied), anonymize_with_ner
\* returns its input unchanged, so full_anonymize returns exactly
\* anonymize_with_regex of its input, also after some spans were spliced.
C2_RecognizerFailureKeepsText ==
    (npc = "done" /\ nraised)
        => (nresult = nregex /\ nresult = anonymize_with_regex(ntext))

\* the recognizer raised after a span had been spliced into the buffer, for a
\* text the regex stage had rewritten, and the regex-stage text came back
C2_Witness ==
    /\ npc = "done"
    /\ nraised
    /\ ntext = DigitRun(<<48, 52>>, 9)
    /\ nregex = PH_KPP
    /\ Len(nspans) = 2
    /\ Len(entities) = 1
    /\ text_list # nregex
    /\ nresult = PH_KPP

\* C5: for pairwise non-overlapping spans within the text, in whatever order
\* the recognizer lists them, anonymize_with_ner returns the text with the
\* characters of each PER, ORG and LOC span replaced by the placeholder of
\* that type and every other character, spans of other types included, kept.
C5_SpansReplaced ==
    (npc = "done" /\ recognizerInvoked /\ ~nraised /\ NonOverlapping(nspans))
        => nresult = ExpectedRedaction(nregex, nspans, 0)

\* two spans listed leftmost first, a person and a location, were applied
C5_Witness ==
    /\ npc = "done"
    /\ recognizerInvoked
    /\ ~nraised
    /\ Len(nspans) = 2
    /\ NonOverlapping(nspans)
    /\ nspans[1].type = "PER"
    /\ nspans[2].type = "LOC"
    /\ nspans[1].start < nspans[2].start
    /\ nresult # nregex

\* C6 (as claimed): for every span list the recognizer returns, overlapping
\* ones included, when a span is spliced the buffer holds at [start, stop)
\* the characters the snapshot holds there.
C6_NoDrift ==
    (npc = "loop" /\ entities # <<>> /\ Head(entities).type \in ReplacedTypes)
        => Slice(text_list, Head(entities).start, Head(entities).stop)
             = Slice(nregex, Head(entities).start, Head(entities).stop)

\* C6 (amended): for every span list whose spans are non-empty and pairwise
\* non-overlapping, when a span is spliced the buffer holds at [start, stop)
\* the characters the snapshot holds there.
C6_NoDriftWithoutOverlap ==
    (npc = "loop" /\ entities # <<>> /\ Head(entities).type \in ReplacedTypes
        /\ NonOverlapping(nspans))
        => Slice(text_list, Head(entities).start, Head(entities).stop)
             = Slice(nregex, Head(entities).start, Head(entities).stop)

\* a span is about to be spliced after a span to its right changed the
\* length of the buffer
C6_Witness ==
    /\ npc = "loop"
    /\ entities # <<>>
    /\ Head(entities).type \in ReplacedTypes
    /\ NonOverlapping(nspans)
    /\ Len(nspans) = 2
    /\ Len(entities) = 1
    /\ Len(text_list) # Len(nregex)

\* C10: for an empty or whitespace-only text, full_anonymize returns the
\* text unchanged and the entity recognizer is not invoked.
C10_BlankIsNoOp ==
    (npc = "done" /\ caller = "direct" /\ IsBlank(ntext))
        => (nresult = ntext /\ ~recognizerInvoked)

-----------------------------------------------------------------------------
(* The request handler: handle_document, with process_docx, process_pdf    *)
(* and process_pdf_simple as it calls them.  The artifacts of a request    *)
(* are "input" (input_path), "output" (output_path) and "temp" (temp_docx, *)
(* the '_temp.docx' file of process_pdf); files is the set of those that   *)
(* exist on disk.  Every call into the transport, the codecs and the file  *)
(* system either returns or raises.                                        *)

\* the size limit the help text states, in megabytes
MaxFileSizeMB == 20

\* the extension of document.file_name; "txt" stands for any other one
FileExts == {"pdf", "docx", "txt"}
\* document.file_size in megabytes: small, at the limit, above the limit
FileSizes == {1, MaxFileSizeMB, MaxFileSizeMB + 1}

InitBot ==
    /\ hpc = "check_format"
    /\ fileExt \in FileExts
    /\ fileSize \in FileSizes
    /\ files = {}
    /\ inputBound = FALSE
    /\ outputBound = FALSE
    /\ getFileCalled = FALSE
    /\ pdfArgs = <<>>
    /\ convFailed = FALSE
    /\ simpleRan = FALSE
    /\ simpleArgs = <<>>
    /\ simpleFailed = FALSE
    /\ pdfOutcome = "none"
    /\ outcome = "none"
    /\ RegexIdle
    /\ NerIdle

\* if not (file_name.endswith('.pdf') or file_name.endswith('.docx')):
\* reply_text(...); return.  A reply_text that raises leaves the handler too.
RejectFormat ==
    /\ hpc = "check_format"
    /\ fileExt \notin {"pdf", "docx"}
    /\ hpc' = "done"
    /\ outcome' \in {"rejected", "propagated"}
    /\ UNCHANGED <<fileExt, fileSize, files, inputBound, outputBound,
                   getFileCalled, pdfArgs, convFailed, simpleRan, simpleArgs,
                   simpleFailed, pdfOutcome, rvars, nvars>>

\* reply_text("processing ..."), before the try block: returns, or raises
\* out of the handler
AnnounceProcessing ==
    /\ hpc = "check_format"
    /\ fileExt \in {"pdf", "docx"}
    /\ \/ /\ hpc' = "get_file"
          /\ UNCHANGED outcome
       \/ /\ hpc' = "done"
          /\ outcome' = "propagated"
    /\ UNCHANGED <<fileExt, fileSize, files, inputBound, outputBound,
                   getFileCalled, pdfArgs, convFailed, simpleRan, simpleArgs,
                   simpleFailed, pdfOutcome, rvars, nvars>>

\* file = await context.bot.get_file(document.file_id): returns or raises
GetFile ==
    /\ hpc = "get_file"
    /\ getFileCalled' = TRUE
    /\ \/ hpc' = "download"
       \/ hpc' = "except"
    /\ UNCHANGED <<fileExt, fileSize, files, inputBound, outputBound,
                   pdfArgs, convFailed, simpleRan, simpleArgs, simpleFailed,
                   pdfOutcome, outcome, rvars, nvars>>

\* input_path = ...; await file.download_to_drive(input_path): the file is
\* written, or the call raises with or without a partial file left; then
\* output_path is bound and process_pdf or process_docx is called
Download ==
    /\ hpc = "download"
    /\ inputBound' = TRUE
    /\ \/ /\ files' = files \cup {"input"}
          /\ outputBound' = TRUE
          /\ hpc' = IF fileExt = "pdf" THEN "convert" ELSE "process_docx"
          /\ pdfArgs' = IF fileExt = "pdf" THEN <<"input", "output">> ELSE <<>>
       \/ /\ files' \in {files, files \cup {"input"}}
          /\ hpc' = "except"
          /\ UNCHANGED <<outputBound, pdfArgs>>
    /\ UNCHANGED <<fileExt, fileSize, getFileCalled, convFailed, simpleRan,
                   simpleArgs, simpleFailed, pdfOutcome, outcome, rvars,
                   nvars>>

\* FileProcessor.process_docx(input_path, output_path): the output is saved,
\* or Document(), the walk or doc.save raises (a failed save may leave a file)
ProcessDocx ==
    /\ hpc = "process_docx"
    /\ \/ /\ files' = files \cup {"output"}
          /\ hpc' = "send"
       \/ /\ files' \in {files, files \cup {"output"}}
          /\ hpc' = "except"
    /\ UNCHANGED <<fileExt, fileSize, inputBound, outputBound, getFileCalled,
                   pdfArgs, convFailed, simpleRan, simpleArgs, simpleFailed,
                   pdfOutcome, outcome, rvars, nvars>>

\* a conversion failure that is raised to the caller of process_pdf
ConvertFails_Raises ==
    /\ hpc = "convert"
    /\ files' \in {files, files \cup {"temp"}}
    /\ convFailed' = TRUE
    /\ pdfOutcome' = "raised"
    /\ hpc' = "except"
    /\ UNCHANGED <<fileExt, fileSize, inputBound, outputBound, getFileCalled,
                   pdfArgs, simpleRan, simpleArgs, simpleFailed, outcome,
                   rvars, nvars>>

\* process_pdf: Converter(input_path), cv.convert(temp_docx), cv.close()
\* return, and temp_docx exists
ConvertReturns ==
    /\ hpc = "convert"
    /\ files' = files \cup {"temp"}
    /\ hpc' = "docx_of_temp"
    /\ UNCHANGED <<fileExt, fileSize, inputBound, outputBound, getFileCalled,
                   pdfArgs, convFailed, simpleRan, simpleArgs, simpleFailed,
                   pdfOutcome, outcome, rvars, nvars>>

\* process_pdf: the conversion raises, with or without temp_docx written;
\* the except branch goes on with process_pdf_simple
ConvertFails ==
    /\ hpc = "convert"
    /\ files' \in {files, files \cup {"temp"}}
    /\ convFailed' = TRUE
    /\ hpc' = "simple"
    /\ UNCHANGED <<fileExt, fileSize, inputBound, outputBound, getFileCalled,
                   pdfArgs, simpleRan, simpleArgs, simpleFailed, pdfOutcome,
                   outcome, rvars, nvars>>

\* process_pdf: FileProcessor.process_docx(temp_docx, output_path) returns,
\* or raises into the same except branch
ProcessDocxOfTemp ==
    /\ hpc = "docx_of_temp"
    /\ \/ /\ files' = files \cup {"output"}
          /\ hpc' = "remove_temp"
       \/ /\ files' \in {files, files \cup {"output"}}
          /\ hpc' = "simple"
    /\ UNCHANGED <<fileExt, fileSize, inputBound, outputBound, getFileCalled,
                   pdfArgs, convFailed, simpleRan, simpleArgs, simpleFailed,
                   pdfOutcome, outcome, rvars, nvars>>

\* process_pdf: if os.path.exists(temp_docx): os.remove(temp_docx)
RemoveTemp ==
    /\ hpc = "remove_temp"
    /\ files' = files \ {"temp"}
    /\ pdfOutcome' = "returned"
    /\ hpc' = "send"
    /\ UNCHANGED <<fileExt, fileSize, inputBound, outputBound, getFileCalled,
                   pdfArgs, convFailed, simpleRan, simpleArgs, simpleFailed,
                   outcome, rvars, nvars>>

\* FileProcessor.process_pdf_simple(input_path, output_path), called from the
\* except branch of process_pdf: it saves the output, or raises out of
\* process_pdf
ProcessPdfSimple ==
    /\ hpc = "simple"
    /\ simpleRan' = TRUE
    /\ simpleArgs' = pdfArgs
    /\ \/ /\ files' = files \cup {"output"}
          /\ pdfOutcome' = "returned"
          /\ hpc' = "send"
          /\ UNCHANGED simpleFailed
       \/ /\ files' \in {files, files \cup {"output"}}
          /\ simpleFailed' = TRUE
          /\ pdfOutcome' = "raised"
          /\ hpc' = "except"
    /\ UNCHANGED <<fileExt, fileSize, inputBound, outputBound, getFileCalled,
                   pdfArgs, convFailed, outcome, rvars, nvars>>

\* with open(output_path, 'rb') as f: await reply_document(...)
SendResult ==
    /\ hpc = "send"
    /\ \/ /\ hpc' = "cleanup"
          /\ outcome' = "sent"
       \/ /\ hpc' = "except"
          /\ UNCHANGED outcome
    /\ UNCHANGED <<fileExt, fileSize, files, inputBound, outputBound,
                   getFileCalled, pdfArgs, convFailed, simpleRan, simpleArgs,
                   simpleFailed, pdfOutcome, rvars, nvars>>

\* the removal of input_path and output_path after the reply
Cleanup ==
    /\ hpc = "cleanup"
    /\ files' = files \ {"input", "output"}
    /\ hpc' = "done"
    /\ UNCHANGED <<fileExt, fileSize, inputBound, outputBound, getFileCalled,
                   pdfArgs, convFailed, simpleRan, simpleArgs, simpleFailed,
                   pdfOutcome, outcome, rvars, nvars>>

\* except Exception: logger.error(...); await reply_text(error): returns,
\* or raises out of the handler before the cleanup
ReportError ==
    /\ hpc = "except"
    /\ \/ /\ hpc' = "error_cleanup"
          /\ outcome' = "failed"
       \/ /\ hpc' = "done"
          /\ outcome' = "propagated"
    /\ UNCHANGED <<fileExt, fileSize, files, inputBound, outputBound,
                   getFileCalled, pdfArgs, convFailed, simpleRan, simpleArgs,
                   simpleFailed, pdfOutcome, rvars, nvars>>

\* the cleanup of the except branch: input_path is removed if it is bound and
\* exists, then output_path; an unbound name raises NameError, which the bare
\* except swallows
ErrorCleanup ==
    /\ hpc = "error_cleanup"
    /\ files' = IF ~inputBound THEN files
                ELSE IF ~outputBound THEN files \ {"input"}
                ELSE files \ {"input", "output"}
    /\ hpc' = "done"
    /\ UNCHANGED <<fileExt, fileSize, inputBound, outputBound, getFileCalled,
                   pdfArgs, convFailed, simpleRan, simpleArgs, simpleFailed,
                   pdfOutcome, outcome, rvars, nvars>>

NextBot ==
    \/ RejectFormat
    \/ AnnounceProcessing
    \/ GetFile
    \/ Download
    \/ ProcessDocx
    \/ ConvertReturns
    \/ ConvertFails
    \/ ProcessDocxOfTemp
    \/ RemoveTemp
    \/ ProcessPdfSimple
    \/ SendResult
    \/ Cleanup
    \/ ReportError
    \/ ErrorCleanup

SpecBot == InitBot /\ [][NextBot]_vars

-----------------------------------------------------------------------------
(* Properties of the request handler.                                      *)

\* C1: when handle_document has finished, on the success path and on every
\* failure path, no temporary artifact of the request exists: the input
\* file, the output file and the '_temp.docx' file are all deleted.
C1_NoArtifactLeft == hpc = "done" => files = {}

\* C3: whenever the conversion step of process_pdf fails, process_pdf_simple
\* is run for the same input and output paths, and process_pdf raises into
\* the request's error branch only if process_pdf_simple failed as well.
C3_FallbackAfterConversionFailure ==
    convFailed =>
        \/ hpc = "simple" /\ pdfOutcome = "none"
        \/ /\ simpleRan
           /\ simpleArgs = pdfArgs
           /\ pdfArgs = <<"input", "output">>
           /\ pdfOutcome = (IF simpleFailed THEN "raised" ELSE "returned")

\* the conversion failed, the fallback produced the output, and the
\* anonymized document was sent
C3_Witness ==
    /\ hpc = "done"
    /\ convFailed
    /\ simpleRan
    /\ ~simpleFailed
    /\ pdfOutcome = "returned"
    /\ outcome = "sent"

\* C4: the document pipeline (the download, then process_pdf or
\* process_docx) is entered only for a file with a supported extension whose
\* size does not exceed the maximum input size.
C4_PipelineOnlyForAcceptedFiles ==
    getFileCalled => (fileExt \in {"pdf", "docx"} /\ fileSize <= MaxFileSizeMB)

====
